---- MODULE Spec2Model ----
(***************************************************************************)
(* Model of the BGP session engine of internal/bgp/bgp.go: the Session     *)
(* object, its Connector/Writer goroutine (run, connect, sendUpdates), its *)
(* keepalive Ticker (sendKeepalives, sendKeepalive), one Reader per        *)
(* connection (consumeBGP) and the control surface (Set, Close).           *)
(*                                                                         *)
(* Every function of bgp.go that takes s.mu holds it from entry to return  *)
(* (sendUpdates releases it only inside cond.Wait), so each critical       *)
(* section is one atomic action and the mutex itself needs no variable.    *)
(* Durations are time.Duration values: integers counting nanoseconds.      *)
(***************************************************************************)
EXTENDS Integers, Sequences, FiniteSets, TLC

\* ------------------------------------------------------------------ bounds

\* Connection handles that can be referenced at the same time (the current
\* connection plus the defunct ones a Reader still holds).
MaxConns == 2

\* Longest argument list of a Set call.
MaxAdvs == 2

\* --------------------------------------------------------- program constants

\* len(adv.Communities) > 63 is rejected by Set.
MaxCommunities == 63

\* The Ticker's period is the negotiated hold time divided by 3.
KeepaliveDivisor == 3

\* ------------------------------------------------------------ configuration

\* time.Second, in the nanoseconds of time.Duration.
Second == 1000000000

\* Arguments of New: the local ASN, the expected peer ASN, the hold time.
\* The hold times are short ones: a Duration of more than 2 s does not fit
\* the 32-bit integers of the model checker.
LocalASN == 65001

PeerASN == 65002

HoldTime == Second

\* What a peer may answer in its OPEN: its ASN and its requested hold time.
PeerOpenASNs == {PeerASN, 65099}

\* The hold times a peer requests: none, one below the local hold time and
\* one above it.
RequestedHolds == {0, Second \div 2, 2 * Second}

\* ---------------------------------------------------------------- net.IP

\* A net.IP: the address family, the address, and the length of the byte
\* slice that holds it (an IPv4 address is stored in 4 or in 16 bytes).
IPv4(a) == [v4 |-> TRUE, a |-> a, len |-> 4]

IPv4in16(a) == [v4 |-> TRUE, a |-> a, len |-> 16]

IPv6(a) == [v4 |-> FALSE, a |-> a, len |-> 16]

\* ip.To4() == nil
To4IsNil(ip) == ~ip.v4

\* ip.Equal(x): an IPv4 address equals its 16-byte form.
IPEqual(ip, x) == ip.v4 = x.v4 /\ ip.a = x.a

\* A *net.IPNet and its String(): the CIDR form, which does not show the
\* length of the byte slice.
IPNet(ip, bits) == [IP |-> ip, bits |-> bits]

PrefixString(n) == <<n.IP.a, n.bits>>

\* A []uint32: a nil slice and an empty slice both have no elements.
NilSlice == [isNil |-> TRUE, elems |-> <<>>]

Slice(elems) == [isNil |-> FALSE, elems |-> elems]

\* reflect.DeepEqual on two []uint32: a nil slice is not deeply equal to an
\* empty non-nil slice.
DeepEqual(x, y) == x.isNil = y.isNil /\ x.elems = y.elems

Advertisement(prefix, nextHop, localPref, communities) ==
    [Prefix |-> prefix, NextHop |-> nextHop, LocalPref |-> localPref,
     Communities |-> communities]

\* ------------------------------------------------------- the caller's inputs

P1 == IPNet(IPv4("10.1.0.0"), 24)

P2 == IPNet(IPv4("10.2.0.0"), 24)

P6 == IPNet(IPv6("2001:db8::"), 64)

H1 == IPv4("10.0.0.1")

H1in16 == IPv4in16("10.0.0.1")

H2 == IPv4("10.0.0.2")

H6 == IPv6("fe80::1")

Communities63 == Slice([i \in 1..MaxCommunities |-> i])

Communities64 == Slice([i \in 1..(MaxCommunities + 1) |-> i])

\* The advertisements a caller passes to Set. Six that Set accepts: for
\* 10.1.0.0/24 one with nil communities and four that differ from it in one
\* respect each (empty communities, the byte length of the next hop, the
\* local preference, the next hop); for 10.2.0.0/24 one with the most
\* communities allowed. Three that it rejects.
ValidAdvs ==
    { Advertisement(P1, H1, 0, NilSlice),
      Advertisement(P1, H1, 0, Slice(<<>>)),
      Advertisement(P1, H1in16, 0, NilSlice),
      Advertisement(P1, H1, 1, NilSlice),
      Advertisement(P1, H2, 0, NilSlice),
      Advertisement(P2, H1, 0, Communities63) }

InvalidAdvs ==
    { Advertisement(P6, H1, 0, NilSlice),
      Advertisement(P2, H6, 0, NilSlice),
      Advertisement(P2, H1, 0, Communities64) }

AdvPool == ValidAdvs \cup InvalidAdvs

\* Two of them, for the runs in which every task of the session takes part.
SmallPool ==
    { Advertisement(P1, H1, 0, NilSlice),
      Advertisement(P2, H1, 0, Communities63) }

SeqsUpTo(S, n) == UNION {[1..k -> S] : k \in 0..n}

\* --------------------------------------------------- map[string]*Advertisement

EmptyMap == <<>>

\* A map field of the Session that may be nil.
NilMap == [present |-> FALSE, m |-> EmptyMap]

Present(m) == [present |-> TRUE, m |-> m]

Range(f) == {f[x] : x \in DOMAIN f}

Perms(S) == {p \in [1..Cardinality(S) -> S] : Range(p) = S}

Min(a, b) == IF a < b THEN a ELSE b

Prefix(s, k) == SubSeq(s, 1, k)

\* ------------------------------------------------------------------ state

VARIABLES
    closed,          \* s.closed
    conn,            \* s.conn: a connection handle, 0 for nil
    actualHoldTime,  \* s.actualHoldTime
    advertised,      \* s.advertised
    new,             \* s.new: nil, or the pending desired map
    newHoldTime,     \* number of values in the one-slot channel s.newHoldTime
    sock,            \* per handle: "free", "open" or "closed"
    reader,          \* per handle: its consumeBGP goroutine
    writerPc,        \* where the run() goroutine stands
    woken,           \* the run() goroutine, in cond.Wait, has been broadcast to
    tickerPc,        \* where the sendKeepalives() goroutine stands
    period,          \* the Ticker's timer period, 0 when it has no timer
    ht,              \* the Ticker's local ht, 0 outside its scope
    lastSet,         \* history: the map of the latest Set that returned nil
    superseding,     \* history: s.new replaced a map no pass had consumed
    resynced,        \* history: handle whose first pass completed, else 0
    rib,             \* history: what the peer holds from the current connection
    heldOver,        \* history: since the Ticker last set its timer, some
                     \* connect() changed the hold time and had its signal
                     \* dropped
    last             \* history: what the latest step did

vars == <<closed, conn, actualHoldTime, advertised, new, newHoldTime, sock,
          reader, writerPc, woken, tickerPc, period, ht, lastSet,
          superseding, resynced, rib, heldOver, last>>

Conns == 1..MaxConns

\* The record of a step. For a pass of the Writer: the handle it wrote to,
\* s.closed, s.advertised and s.new as the pass found them, the handle whose
\* first pass had completed (cur), whether s.new had replaced a pending map
\* (flag), the messages it wrote and whether the last of them failed. For a
\* Reader that ends: its handle, s.conn (cur), whether it called abort()
\* (flag). For a Set with an unacceptable argument or an error: the place
\* of the first unacceptable argument (cur), whether it returned an error.
\* For a Ticker that sets its timer after a connect() had changed the hold
\* time and had its signal dropped: kind "reset" (flag).
Ev(kind) ==
    [kind |-> kind, conn |-> 0, cur |-> 0, closed |-> FALSE, A |-> EmptyMap,
     N |-> NilMap, sent |-> <<>>, failed |-> FALSE, flag |-> FALSE]

\* New gives s.advertised an empty map and leaves s.new nil.
InitialAdvertisedSeeded ==
    [k \in {PrefixString(P1)} |-> CHOOSE a \in SmallPool : a.Prefix = P1]

InitialAdvertised == EmptyMap

Init ==
    /\ closed = FALSE
    /\ conn = 0
    /\ actualHoldTime = 0
    /\ advertised = InitialAdvertised
    /\ new = NilMap
    /\ newHoldTime = 0
    /\ sock = [c \in Conns |-> "free"]
    /\ reader = [c \in Conns |-> "none"]
    /\ writerPc = "connect"
    /\ woken = FALSE
    /\ tickerPc = "select"
    /\ period = 0
    /\ ht = 0
    /\ lastSet = NilMap
    /\ superseding = FALSE
    /\ resynced = 0
    /\ rib = EmptyMap
    /\ heldOver = FALSE
    /\ last = Ev("New")

\* The process has not died of a runtime panic.
Running == writerPc # "panic" /\ tickerPc # "panic"

\* ------------------------------------------------------------------ abort

\* s.conn.Close() of abort(), on the table of sockets.
CloseSock(sk, c) == IF c # 0 THEN [sk EXCEPT ![c] = "closed"] ELSE sk

\* abort() folds a pending map into s.advertised.
AbortAdvertisedKeep(adv, nw) == adv

AbortAdvertised(adv, nw) == IF nw.present THEN nw.m ELSE adv

\* s.cond.Broadcast(): a goroutine in cond.Wait becomes runnable.
Broadcast(pc, w) == IF pc = "wait" THEN TRUE ELSE w

\* The fields of the Session other than the ones a step names.
session == <<closed, conn, actualHoldTime, advertised, new, newHoldTime, sock>>

tasks == <<reader, writerPc, woken, tickerPc, period, ht>>

history == <<lastSet, superseding, resynced, rib, heldOver>>

\* -------------------------------------------------------------- Set, Close

\* The three checks Set makes of one advertisement, in its order.
ValidationError(adv) ==
    IF To4IsNil(adv.Prefix.IP) THEN "cannot advertise non-v4 prefix"
    ELSE IF To4IsNil(adv.NextHop) THEN "next-hop must be IPv4"
    ELSE IF Len(adv.Communities.elems) > MaxCommunities
         THEN "max supported communities is 63"
    ELSE "nil"

\* Set returns the error of the first advertisement that fails a check.
SetErrorFirstOnly(advs) ==
    IF advs = <<>> THEN "nil" ELSE ValidationError(advs[1])

SetError(advs) ==
    LET bad == {i \in 1..Len(advs) : ValidationError(advs[i]) # "nil"}
    IN  IF bad = {} THEN "nil"
        ELSE ValidationError(advs[CHOOSE i \in bad : \A j \in bad : i <= j])

\* newAdvs of Set: keyed by adv.Prefix.String(), a later advertisement for
\* the same prefix replaces an earlier one.
SetMap(advs) ==
    LET keys == {PrefixString(advs[i].Prefix) : i \in 1..Len(advs)}
        at(k) == {i \in 1..Len(advs) : PrefixString(advs[i].Prefix) = k}
    IN  [k \in keys |-> advs[CHOOSE i \in at(k) : \A j \in at(k) : j <= i]]

\* s.new = newAdvs of Set: the pending map is replaced, not merged.
NewAfterSetMerged(nw, advs) ==
    LET m == SetMap(advs)
    IN  Present([k \in DOMAIN nw.m \cup DOMAIN m |->
                    IF k \in DOMAIN m THEN m[k] ELSE nw.m[k]])

NewAfterSet(nw, advs) == Present(SetMap(advs))

\* An advertisement outside what Set accepts: a prefix or a next hop that is
\* not IPv4, or more than 63 communities.
Unacceptable(adv) ==
    \/ ~adv.Prefix.IP.v4
    \/ ~adv.NextHop.v4
    \/ Len(adv.Communities.elems) >= MaxCommunities + 1

\* The place of the first such argument of a call, 0 when there is none.
FirstUnacceptable(advs) ==
    LET bad == {i \in 1..Len(advs) : Unacceptable(advs[i])}
    IN  IF bad = {} THEN 0 ELSE CHOOSE i \in bad : \A j \in bad : i <= j

Set(advs) ==
    /\ Running
    /\ LET err == SetError(advs)
           ev == IF FirstUnacceptable(advs) # 0 \/ err # "nil"
                 THEN [Ev("Set") EXCEPT !.failed = (err # "nil"),
                                        !.flag = TRUE,
                                        !.cur = FirstUnacceptable(advs)]
                 ELSE Ev("none")
       IN  IF err # "nil"
           THEN /\ last' = ev
                /\ UNCHANGED <<session, tasks, history>>
           ELSE /\ new' = NewAfterSet(new, advs)
                /\ woken' = Broadcast(writerPc, woken)
                /\ lastSet' = Present(SetMap(advs))
                /\ superseding' = new.present
                /\ last' = ev
                /\ UNCHANGED <<closed, conn, actualHoldTime, advertised,
                               newHoldTime, sock, reader, writerPc, tickerPc,
                               period, ht, resynced, rib, heldOver>>

Close ==
    /\ Running
    /\ closed' = TRUE
    /\ conn' = 0
    /\ sock' = CloseSock(sock, conn)
    /\ advertised' = AbortAdvertised(advertised, new)
    /\ new' = NilMap
    /\ woken' = Broadcast(writerPc, woken)
    /\ superseding' = FALSE
    /\ rib' = EmptyMap
    /\ last' = Ev("none")
    /\ UNCHANGED <<actualHoldTime, newHoldTime, reader, writerPc, tickerPc,
                   period, ht, lastSet, heldOver, resynced>>

\* ------------------------------------------------------------- Connector

\* The handle of a new connection: the first one nothing refers to.
FreeConns == {c \in Conns : sock[c] = "free"}

NewConn == CHOOSE c \in FreeConns : \A d \in FreeConns : c <= d

\* What the network and the peer do during one connect(): whether the
\* dial, the write of OPEN, the read of the peer's OPEN and the write of
\* the KEEPALIVE succeed, and the ASN and hold time of the peer's OPEN.
PeerBehaviours ==
    [dial : BOOLEAN, sendOpen : BOOLEAN, readOpen : BOOLEAN,
     asn : PeerOpenASNs, requestedHold : RequestedHolds, keepalive : BOOLEAN]

\* The messages of the handshake: the OPEN sendOpen writes, the OPEN
\* readOpen reads, the KEEPALIVE sendKeepalive writes.
Open(asn) == [type |-> "OPEN", asn |-> asn, adv |-> <<>>, wdr |-> {}]

PeerOpen(asn) == [type |-> "peer OPEN", asn |-> asn, adv |-> <<>>, wdr |-> {}]

Keepalive == [type |-> "KEEPALIVE", asn |-> 0, adv |-> <<>>, wdr |-> {}]

\* connect() against one behaviour of the peer: the messages written and
\* read on the new socket in their order, the error returned, whether the
\* Reader was started, and the hold time taken from the peer's OPEN.
HandshakeNoASNCheck(asn, peerASN, p) ==
    LET out(wire, err, rd, rh) ==
            [wire |-> wire, err |-> err, reader |-> rd, requested |-> rh]
    IN  IF ~p.dial THEN out(<<>>, "dial", FALSE, 0)
        ELSE IF ~p.sendOpen THEN out(<<>>, "send OPEN", FALSE, 0)
        ELSE IF ~p.readOpen THEN out(<<Open(asn)>>, "read OPEN", FALSE, 0)
        ELSE IF ~p.keepalive
        THEN out(<<Open(asn), PeerOpen(p.asn)>>, "accepting peer OPEN",
                 TRUE, 0)
        ELSE out(<<Open(asn), PeerOpen(p.asn), Keepalive>>, "nil", TRUE,
                 p.requestedHold)

Handshake(asn, peerASN, p) ==
    LET out(wire, err, rd, rh) ==
            [wire |-> wire, err |-> err, reader |-> rd, requested |-> rh]
    IN  IF ~p.dial THEN out(<<>>, "dial", FALSE, 0)
        ELSE IF ~p.sendOpen THEN out(<<>>, "send OPEN", FALSE, 0)
        ELSE IF ~p.readOpen THEN out(<<Open(asn)>>, "read OPEN", FALSE, 0)
        ELSE IF p.asn # peerASN
        THEN out(<<Open(asn), PeerOpen(p.asn)>>, "unexpected peer ASN",
                 FALSE, 0)
        ELSE IF ~p.keepalive
        THEN out(<<Open(asn), PeerOpen(p.asn)>>, "accepting peer OPEN",
                 TRUE, 0)
        ELSE out(<<Open(asn), PeerOpen(p.asn), Keepalive>>, "nil", TRUE,
                 p.requestedHold)

\* The outcomes of connect() over every behaviour of the peer.
Handshakes == {Handshake(LocalASN, PeerASN, p) : p \in PeerBehaviours}

\* The record of a connect(): the handle it published (0 when it returned
\* an error), the messages of the handshake, the hold time the peer
\* requested (cur).
ConnectEv(h, c) ==
    [Ev("connect") EXCEPT !.conn = c, !.sent = h.wire,
                          !.failed = (h.err # "nil"), !.cur = h.requested]

\* connect() returns an error before it has started a Reader: the dial, the
\* write of OPEN or the read of the peer's OPEN fails, or the peer's ASN is
\* not s.peerASN. The socket, if any, is closed again.
ConnectFail ==
    /\ Running
    /\ writerPc = "connect"
    /\ \E h \in Handshakes :
         /\ h.err # "nil"
         /\ ~h.reader
         /\ last' = ConnectEv(h, 0)
    /\ writerPc' = "backoff"
    /\ UNCHANGED <<session, reader, woken, tickerPc, period, ht, history>>

\* connect() has read an OPEN with the expected ASN and started the Reader;
\* the write of the KEEPALIVE that accepts the OPEN fails.
ConnectKeepaliveFail ==
    /\ Running
    /\ writerPc = "connect"
    /\ FreeConns # {}
    /\ \E h \in Handshakes :
         /\ h.err # "nil"
         /\ h.reader
         /\ last' = ConnectEv(h, 0)
    /\ reader' = [reader EXCEPT ![NewConn] = "reading"]
    /\ sock' = [sock EXCEPT ![NewConn] = "closed"]
    /\ writerPc' = "backoff"
    /\ UNCHANGED <<closed, conn, actualHoldTime, advertised, new, newHoldTime,
                   woken, tickerPc, period, ht, history>>

\* s.actualHoldTime of connect(): the smaller of s.holdTime and the hold
\* time the peer requested.
NegotiatedHoldLocal(holdTime, requestedHold) == holdTime

NegotiatedHold(holdTime, requestedHold) == Min(holdTime, requestedHold)

\* connect() succeeds: the hold time is set and signalled (the signal is
\* dropped when the channel is full) and the connection is published.
ConnectOK ==
    /\ Running
    /\ writerPc = "connect"
    /\ FreeConns # {}
    /\ \E h \in Handshakes :
         /\ h.err = "nil"
         /\ actualHoldTime' = NegotiatedHold(HoldTime, h.requested)
         /\ heldOver' = \/ heldOver
                        \/ newHoldTime = 1 /\ actualHoldTime' # actualHoldTime
         /\ last' = ConnectEv(h, NewConn)
    /\ reader' = [reader EXCEPT ![NewConn] = "reading"]
    /\ sock' = [sock EXCEPT ![NewConn] = "open"]
    /\ newHoldTime' = 1
    /\ conn' = NewConn
    /\ rib' = EmptyMap
    /\ writerPc' = "sendUpdates"
    /\ UNCHANGED <<closed, advertised, new, woken, tickerPc, period, ht,
                   lastSet, superseding, resynced>>

\* time.Sleep(backoff) of run() is over.
Backoff ==
    /\ Running
    /\ writerPc = "backoff"
    /\ writerPc' = "connect"
    /\ last' = Ev("none")
    /\ UNCHANGED <<session, reader, woken, tickerPc, period, ht, history>>

\* ---------------------------------------------------------------- Writer

\* asn of sendUpdates(): 0 on the wire when the peer is in the local AS.
WireASN(asn, peerASN) == IF peerASN = asn THEN 0 ELSE asn

\* The messages sendUpdate and sendWithdraw write.
Update(asn, adv) ==
    [type |-> "UPDATE", asn |-> asn, adv |-> <<adv>>, wdr |-> {}]

Withdraw(wdr) ==
    [type |-> "WITHDRAW", asn |-> 0, adv |-> <<>>, wdr |-> wdr]

\* What a write of a message to s.conn can do: succeed or return an error,
\* and on a nil s.conn (the method of a nil interface is called) panic.
Writes(c) == IF c = 0 THEN {"panic"} ELSE {"ok", "error"}

\* The first lines of sendUpdates(): a pending map becomes s.advertised.
PromotedStale(adv, nw) == adv

Promoted(adv, nw) == IF nw.present THEN nw.m ELSE adv

\* The first pass ranges over s.advertised in some order and stops at the
\* first write that fails: the keys it wrote an UPDATE for, and whether the
\* last of these writes failed.
FirstPassRuns(m) ==
    UNION {
      {[keys |-> ord, failed |-> FALSE]}
      \cup {[keys |-> Prefix(ord, k), failed |-> TRUE] : k \in 1..Len(ord)}
      : ord \in Perms(DOMAIN m)}

\* The test of the diff loop: the peer already has this advertisement.
PeerHasAlways(advd, c, adv) == c \in DOMAIN advd

PeerHas(advd, c, adv) ==
    /\ c \in DOMAIN advd
    /\ IPEqual(advd[c].NextHop, adv.NextHop)
    /\ DeepEqual(advd[c].Communities, adv.Communities)

\* wdr of the diff: the prefixes advertised whose key is not pending.
WithdrawnAll(advd, nw) == {advd[c].Prefix : c \in DOMAIN advd}

Withdrawn(advd, nw) ==
    {advd[c].Prefix : c \in {k \in DOMAIN advd : k \notin DOMAIN nw}}

\* The diff ranges over s.new in some order, writes an UPDATE for each
\* advertisement the peer does not have, then one WITHDRAW when wdr is not
\* empty, and stops at the first write that fails: the messages it wrote,
\* and whether the last of these writes failed.
DiffRuns(asn, advd, nw) ==
    LET wdr == Withdrawn(advd, nw)
        todo(ord) == SelectSeq(ord, LAMBDA c : ~PeerHas(advd, c, nw[c]))
        ups(ks) == [i \in 1..Len(ks) |-> Update(asn, nw[ks[i]])]
    IN  UNION {
          {[sent |-> ups(Prefix(todo(ord), k)), failed |-> TRUE] :
              k \in 1..Len(todo(ord))}
          \cup
          (IF wdr = {}
           THEN {[sent |-> ups(todo(ord)), failed |-> FALSE]}
           ELSE {[sent |-> ups(todo(ord)) \o <<Withdraw(wdr)>>,
                  failed |-> ~ok] : ok \in BOOLEAN})
          : ord \in Perms(DOMAIN nw)}

\* What the peer holds after it has received msgs: an UPDATE replaces the
\* route of its prefix and a WITHDRAW removes the routes of its prefixes.
RECURSIVE Learn(_, _)
Learn(routes, msgs) ==
    IF msgs = <<>> THEN routes
    ELSE LET m == Head(msgs)
             k == PrefixString(m.adv[1].Prefix)
             gone == {PrefixString(n) : n \in m.wdr}
         IN  Learn(IF m.type = "UPDATE"
                   THEN [c \in DOMAIN routes \cup {k} |->
                            IF c = k THEN m.adv[1] ELSE routes[c]]
                   ELSE [c \in DOMAIN routes \ gone |-> routes[c]],
                   Tail(msgs))

\* sendUpdates() from its entry to its first cond.Wait or return. The
\* pending map is promoted and every entry of s.advertised is written. A
\* write on a nil s.conn ends the process (a nil interface is called); a
\* write that fails aborts and returns to run(), which connects again;
\* otherwise the loop is entered and waits, or returns when s.conn is nil.
FirstPass ==
    /\ Running
    /\ writerPc = "sendUpdates"
    /\ LET adv1 == Promoted(advertised, new)
           asn == WireASN(LocalASN, PeerASN)
           ev == [Ev("first") EXCEPT !.conn = conn, !.closed = closed,
                     !.A = advertised, !.N = new, !.flag = superseding,
                     !.cur = resynced]
       IN  /\ advertised' = adv1
           /\ new' = NilMap
           /\ superseding' = FALSE
           /\ IF DOMAIN adv1 # {} /\ Writes(conn) = {"panic"}
              THEN /\ writerPc' = "panic"
                   /\ \E k \in DOMAIN adv1 :
                        last' = [ev EXCEPT !.sent = <<Update(asn, adv1[k])>>,
                                           !.failed = TRUE]
                   /\ UNCHANGED <<conn, sock, woken, resynced, rib>>
              ELSE \E run \in FirstPassRuns(adv1) :
                   /\ last' = [ev EXCEPT
                         !.sent = [i \in 1..Len(run.keys) |->
                                      Update(asn, adv1[run.keys[i]])],
                         !.failed = run.failed]
                   /\ IF run.failed
                      THEN /\ conn' = 0
                           /\ sock' = CloseSock(sock, conn)
                           /\ writerPc' = "connect"
                           /\ resynced' = 0
                           /\ rib' = EmptyMap
                           /\ UNCHANGED woken
                      ELSE /\ writerPc' =
                                IF conn # 0 THEN "wait"
                                ELSE IF closed THEN "exited" ELSE "connect"
                           /\ woken' = FALSE
                           /\ resynced' = conn
                           /\ rib' = Learn(rib, last'.sent)
                           /\ UNCHANGED <<conn, sock>>
    /\ UNCHANGED <<closed, actualHoldTime, newHoldTime, reader, tickerPc,
                   period, ht, lastSet, heldOver>>

\* cond.Wait returns and the loop of sendUpdates() finds nothing to write:
\* it waits again, or returns errClosed (run() returns) or nil (run()
\* connects again).
WriterReturn ==
    /\ Running
    /\ writerPc = "wait"
    /\ woken
    /\ closed \/ conn = 0 \/ ~new.present
    /\ woken' = FALSE
    /\ IF ~new.present /\ conn # 0
       THEN UNCHANGED <<writerPc, resynced>>
       ELSE /\ writerPc' = IF closed THEN "exited" ELSE "connect"
            /\ resynced' = 0
    /\ last' = Ev("none")
    /\ UNCHANGED <<session, reader, tickerPc, period, ht, lastSet, heldOver,
                   superseding, rib>>

\* cond.Wait returns with a pending map on a live connection of a session
\* that is not closed: the diff. A write that fails aborts (the pending map
\* becomes s.advertised) and returns to run(); otherwise the pending map is
\* committed and the loop waits again.
Diff ==
    /\ Running
    /\ writerPc = "wait"
    /\ woken
    /\ ~closed /\ conn # 0 /\ new.present
    /\ \E run \in DiffRuns(WireASN(LocalASN, PeerASN), advertised, new.m) :
         /\ last' = [Ev("diff") EXCEPT !.conn = conn, !.closed = closed,
                        !.A = advertised, !.N = new, !.flag = superseding,
                        !.cur = resynced,
                        !.sent = run.sent, !.failed = run.failed]
         /\ IF run.failed
            THEN /\ conn' = 0
                 /\ sock' = CloseSock(sock, conn)
                 /\ advertised' = AbortAdvertised(advertised, new)
                 /\ writerPc' = "connect"
                 /\ resynced' = 0
                 /\ rib' = EmptyMap
            ELSE /\ advertised' = new.m
                 /\ rib' = Learn(rib, run.sent)
                 /\ UNCHANGED <<conn, sock, writerPc, resynced>>
    /\ new' = NilMap
    /\ woken' = FALSE
    /\ superseding' = FALSE
    /\ UNCHANGED <<closed, actualHoldTime, newHoldTime, reader, tickerPc,
                   period, ht, lastSet, heldOver>>

\* ---------------------------------------------------------------- Reader

\* The halves of the 16-byte marker of a message header, as consumeBGP
\* reads them: 0xffffffffffffffff, or anything else.
AllOnes == "ffffffffffffffff"

MarkerHalves == {AllOnes, "0000000000000000"}

\* What one round of the loop of consumeBGP meets: an error reading the
\* header or discarding the body, and the marker read.
Inbound ==
    [err : {"none", "header", "body"}, Marker1 : MarkerHalves,
     Marker2 : MarkerHalves]

\* The loop goes on: no read error and both halves of the marker all ones.
ReaderGoesOn(in) ==
    /\ in.err = "none"
    /\ ~(in.Marker1 # AllOnes \/ in.Marker2 # AllOnes)

\* One round of the loop of consumeBGP(c). Reads on a socket that was
\* closed on this side fail.
ReaderRead(c) ==
    /\ Running
    /\ reader[c] = "reading"
    /\ \E in \in Inbound :
         /\ sock[c] = "closed" => in.err = "header"
         /\ reader' = [reader EXCEPT
                          ![c] = IF ReaderGoesOn(in) THEN "reading"
                                 ELSE "exiting"]
    /\ last' = Ev("none")
    /\ UNCHANGED <<session, writerPc, woken, tickerPc, period, ht, history>>

\* The test of the deferred function of consumeBGP: abort only when the
\* session's connection is the Reader's own.
ReaderAbortsAlways(cur, c) == TRUE

ReaderAborts(cur, c) == cur = c

\* The deferred function of consumeBGP(c): abort() when s.conn is c, else
\* c.Close(). Nothing refers to c afterwards.
ReaderExit(c) ==
    /\ Running
    /\ reader[c] = "exiting"
    /\ reader' = [reader EXCEPT ![c] = "none"]
    /\ last' = [Ev("readerExit") EXCEPT !.conn = c, !.cur = conn,
                                       !.flag = ReaderAborts(conn, c)]
    /\ IF ReaderAborts(conn, c)
       THEN /\ conn' = 0
            /\ sock' = [CloseSock(sock, conn) EXCEPT ![c] = "free"]
            /\ advertised' = AbortAdvertised(advertised, new)
            /\ new' = NilMap
            /\ woken' = Broadcast(writerPc, woken)
            /\ superseding' = FALSE
            /\ rib' = EmptyMap
       ELSE /\ sock' = [sock EXCEPT ![c] = "free"]
            /\ UNCHANGED <<conn, advertised, new, woken, superseding, rib>>
    /\ UNCHANGED <<closed, actualHoldTime, newHoldTime, writerPc, tickerPc,
                   period, ht, lastSet, heldOver, resynced>>

\* ---------------------------------------------------------------- Ticker

\* sendKeepalives() receives from s.newHoldTime.
TickerSignal ==
    /\ Running
    /\ tickerPc = "select"
    /\ newHoldTime = 1
    /\ newHoldTime' = 0
    /\ tickerPc' = "signalled"
    /\ last' = Ev("none")
    /\ UNCHANGED <<closed, conn, actualHoldTime, advertised, new, sock,
                   reader, writerPc, woken, period, ht, history>>

\* sendKeepalives() reads s.actualHoldTime into ht under s.mu and releases
\* the lock.
TickerRead ==
    /\ Running
    /\ tickerPc = "signalled"
    /\ ht' = actualHoldTime
    /\ tickerPc' = "read"
    /\ last' = Ev("none")
    /\ UNCHANGED <<session, reader, writerPc, woken, period, history>>

\* ht / 3 of sendKeepalives(): the integer division of a Duration, which
\* truncates toward zero.
TimerPeriodLocal(h) == HoldTime \div KeepaliveDivisor

TimerPeriod(h) ==
    IF h >= 0 THEN h \div KeepaliveDivisor
    ELSE 0 - ((0 - h) \div KeepaliveDivisor)

\* sendKeepalives() stops its timer and, when the ht it has read is not
\* zero, starts one of a third of it; period 0 stands for no timer.
\* time.NewTicker panics when given a period that is not positive, the old
\* timer being stopped already.
TickerReset ==
    /\ Running
    /\ tickerPc = "read"
    /\ IF ht # 0
       THEN IF TimerPeriod(ht) <= 0
            THEN /\ tickerPc' = "panic"
                 /\ period' = 0
            ELSE /\ tickerPc' = "select"
                 /\ period' = TimerPeriod(ht)
       ELSE /\ tickerPc' = "select"
            /\ period' = 0
    /\ ht' = 0
    /\ heldOver' = FALSE
    /\ last' = IF heldOver THEN [Ev("reset") EXCEPT !.flag = TRUE]
                ELSE Ev("none")
    /\ UNCHANGED <<session, reader, writerPc, woken, lastSet, superseding,
                   resynced, rib>>

\* The timer ticks and sendKeepalive() runs: errClosed ends the Ticker, no
\* connection is no work, else one KEEPALIVE is written; a write that fails
\* aborts.
TickerTick ==
    /\ Running
    /\ tickerPc = "select"
    /\ period # 0
    /\ IF closed
       THEN /\ tickerPc' = "done"
            /\ UNCHANGED <<conn, sock, advertised, new, woken, superseding,
                           rib>>
       ELSE IF conn = 0
       THEN UNCHANGED <<tickerPc, conn, sock, advertised, new, woken,
                           superseding, rib>>
       ELSE \E ok \in BOOLEAN :
            /\ UNCHANGED tickerPc
            /\ IF ok
               THEN UNCHANGED <<conn, sock, advertised, new, woken,
                                superseding, rib>>
               ELSE /\ conn' = 0
                    /\ rib' = EmptyMap
                    /\ sock' = CloseSock(sock, conn)
                    /\ advertised' = AbortAdvertised(advertised, new)
                    /\ new' = NilMap
                    /\ woken' = Broadcast(writerPc, woken)
                    /\ superseding' = FALSE
    /\ last' = Ev("none")
    /\ UNCHANGED <<closed, actualHoldTime, newHoldTime, reader, writerPc,
                   period, ht, lastSet, heldOver, resynced>>

\* ------------------------------------------------------------ specification

Connector == ConnectFail \/ ConnectKeepaliveFail \/ ConnectOK \/ Backoff

Writer == FirstPass \/ WriterReturn \/ Diff

Ticker == TickerSignal \/ TickerRead \/ TickerReset \/ TickerTick

\* Set acts on its arguments only through the error it returns, the map it
\* builds and the place of its first unacceptable argument: one list of
\* SetInputs is kept for each such outcome.
SetOutcome(advs) ==
    <<SetError(advs),
      IF SetError(advs) = "nil" THEN SetMap(advs) ELSE EmptyMap,
      FirstUnacceptable(advs)>>

SetCalls(inputs) ==
    {CHOOSE advs \in inputs : SetOutcome(advs) = o :
        o \in {SetOutcome(advs) : advs \in inputs}}

SmallCalls == SetCalls(SeqsUpTo(SmallPool, MaxAdvs))

PoolCalls == SetCalls(SeqsUpTo(AdvPool, MaxAdvs))

Caller == Close \/ \E advs \in SmallCalls : Set(advs)

Readers == \E c \in Conns : ReaderRead(c) \/ ReaderExit(c)

Next == Connector \/ Writer \/ Ticker \/ Caller \/ Readers

\* Every task of the session, a caller that sets the advertisements of
\* SmallPool and closes, a peer that fails at any step.
Spec == Init /\ [][Next]_vars

\* The Connector, the Writer and the Readers with a caller that sets every
\* argument list over AdvPool: the peer accepts every connection, and ends
\* it or fails a write at any time.
DataNext ==
    \/ ConnectOK
    \/ Writer
    \/ \E advs \in PoolCalls : Set(advs)
    \/ Readers

DataSpec == Init /\ [][DataNext]_vars

\* A read on a socket closed on this side returns.
ReaderEOF(c) == sock[c] = "closed" /\ ReaderRead(c)

\* The tick of a closed session, which ends the Ticker.
TickerLastTick == closed /\ TickerTick

\* Spec with the scheduling of the Go runtime: a goroutine that can take a
\* step takes it. Nothing makes the peer answer, accept or fail, and
\* nothing makes the caller call.
FairSpec ==
    /\ Spec
    /\ WF_vars(Connector)
    /\ WF_vars(Writer)
    /\ WF_vars(TickerSignal)
    /\ WF_vars(TickerRead)
    /\ WF_vars(TickerReset)
    /\ WF_vars(TickerLastTick)
    /\ \A c \in Conns : WF_vars(ReaderEOF(c)) /\ WF_vars(ReaderExit(c))

\* ------------------------------------------------------------------ claims

\* The latest step was a pass of the Writer.
IsPass == last.kind \in {"first", "diff"}

\* The messages of the latest pass whose write succeeded.
Written ==
    IF last.failed THEN Prefix(last.sent, Len(last.sent) - 1) ELSE last.sent

\* The desired set a first pass starts from: the pending map if there is
\* one, else the map advertised last.
LatestDesired == IF last.N.present THEN last.N.m ELSE last.A

\* C1. Reconnect resync: a first pass that no failed write cuts short has
\* written exactly one UPDATE for each entry of the latest desired set (the
\* pending map if a Set arrived, else the map advertised last) and nothing
\* else, and a diff is only ever made on a connection on which that first
\* pass has completed.
C1_ReconnectResync ==
    /\ (last.kind = "first" /\ ~last.failed) =>
          /\ Len(last.sent) = Cardinality(DOMAIN LatestDesired)
          /\ \A k \in DOMAIN LatestDesired :
                Cardinality({i \in 1..Len(last.sent) :
                    last.sent[i] = Update(WireASN(LocalASN, PeerASN),
                                          LatestDesired[k])}) = 1
    /\ last.kind = "diff" => (last.conn # 0 /\ last.cur = last.conn)

\* A first pass, on a session that is not closed and has no pending map,
\* that wrote the two advertisements left by an earlier connection.
C1_Witness ==
    /\ last.kind = "first"
    /\ ~last.failed
    /\ ~last.closed
    /\ ~last.N.present
    /\ last.conn # 0
    /\ Len(last.sent) = 2

\* C2. Replacement semantics: whatever Set calls came before it, a pass of
\* the Writer is computed from the map of the latest Set that returned nil
\* only: each UPDATE it writes is an entry of that map and no WITHDRAW it
\* writes names a prefix of that map; an entry of a superseded Set that is
\* not in the latest one is never written.
C2_Replacement ==
    (IsPass /\ lastSet.present) =>
        \A i \in 1..Len(last.sent) :
            /\ last.sent[i].type = "UPDATE" =>
                    last.sent[i].adv[1] \in Range(lastSet.m)
            /\ last.sent[i].type = "WITHDRAW" =>
                    \A n \in last.sent[i].wdr :
                        PrefixString(n) \notin DOMAIN lastSet.m

\* A pass that wrote a message from a map that had replaced a pending map
\* no pass had consumed.
C2_Witness ==
    /\ IsPass
    /\ last.flag
    /\ ~last.failed
    /\ Len(last.sent) > 0

\* The WITHDRAW messages of the latest pass, and the prefixes advertised
\* whose key is not pending.
WithdrawsSent == {i \in 1..Len(last.sent) : last.sent[i].type = "WITHDRAW"}

UpdatesSent == {i \in 1..Len(last.sent) : last.sent[i].type = "UPDATE"}

Stale == {last.A[k].Prefix : k \in DOMAIN last.A \ DOMAIN last.N.m}

\* The pass ended at an UPDATE whose write failed, before the withdrawals.
CutShort ==
    /\ last.failed
    /\ last.sent[Len(last.sent)].type = "UPDATE"

\* C3. Withdrawal derivation: a diff writes at most one WITHDRAW, which
\* carries exactly the prefixes advertised whose keys are not pending; a
\* diff that no failed UPDATE write cuts short writes one exactly when
\* there is such a prefix; when the pending map is empty no UPDATE is
\* written and every advertised prefix is withdrawn.
C3_Withdrawal ==
    last.kind = "diff" =>
        /\ Cardinality(WithdrawsSent) <= 1
        /\ \A i \in WithdrawsSent : last.sent[i].wdr = Stale
        /\ ~CutShort => (WithdrawsSent # {} <=> Stale # {})
        /\ DOMAIN last.N.m = {} =>
              /\ UpdatesSent = {}
              /\ Stale = {last.A[k].Prefix : k \in DOMAIN last.A}

\* A diff that wrote an UPDATE and then one WITHDRAW, and a diff of an
\* empty pending map that withdrew two prefixes.
C3_Witness ==
    /\ last.kind = "diff"
    /\ ~last.failed
    /\ \/ Len(last.sent) = 2 /\ WithdrawsSent = {2}
       \/ DOMAIN last.N.m = {} /\ WithdrawsSent = {1}
                               /\ Cardinality(Stale) = 2

\* Two maps with the same prefixes and, for each prefix, an equal NextHop
\* and the same elements of Communities in the same order.
SameForTransmission(a, n) ==
    /\ DOMAIN a = DOMAIN n
    /\ \A k \in DOMAIN a :
          /\ a[k].NextHop.v4 = n[k].NextHop.v4
          /\ a[k].NextHop.a = n[k].NextHop.a
          /\ a[k].Communities.elems = n[k].Communities.elems

\* C4. Idempotent re-set: a diff whose pending map has the prefixes of the
\* advertised map and, for each, an equal NextHop and element-wise equal
\* Communities writes no UPDATE and no WITHDRAW.
C4_IdempotentReset ==
    (last.kind = "diff" /\ SameForTransmission(last.A, last.N.m)) =>
        last.sent = <<>>

\* C5. While closed is true the session has no connection.
C5_ClosedNoConn == closed => conn = 0

\* C6. Close is the cancellation primitive: once closed is true the run()
\* goroutine eventually leaves its loop (a panic of the goroutine is
\* counted as leaving it).
C6_CloseStopsConnector == closed ~> (writerPc \in {"exited", "panic"})

\* C7. No pass of the Writer made while closed is true writes an UPDATE or
\* a WITHDRAW.
C7_NoTrafficAfterClose == (IsPass /\ last.closed) => Written = <<>>

\* C8. Stale-reader safety: a Reader that ends calls abort() exactly when
\* s.conn is the connection it was bound to; otherwise s.conn stays what it
\* was and, when there is one, its socket stays open.
C8_StaleReader ==
    last.kind = "readerExit" =>
        /\ last.flag <=> last.cur = last.conn
        /\ last.cur # last.conn =>
              /\ conn = last.cur
              /\ conn # 0 => sock[conn] = "open"

\* A Reader of an earlier connection ended while another one was current.
C8_Witness ==
    /\ last.kind = "readerExit"
    /\ last.cur # 0
    /\ last.cur # last.conn
    /\ conn = last.cur

\* C9. Marker validation: when the Reader of the current connection has
\* met a read error or a marker that is not all ones, the connection is
\* dropped and, unless the session is closed, run() comes to connect again.
C9_MarkerValidation ==
    \A c \in Conns :
        (reader[c] = "exiting" /\ conn = c) ~>
            (conn # c /\ (closed \/ writerPc \in {"connect", "backoff"}))

\* C10. A Set with an argument that is not acceptable, at any place of its
\* argument list, returns an error and changes nothing of the session, of
\* its tasks or of what was set last: the Writer is not woken.
C10_SetValidation ==
    [][(last'.kind = "Set" /\ last'.cur # 0) =>
          /\ last'.failed
          /\ UNCHANGED <<session, tasks, history>>]_vars

\* A Set whose second argument is the first unacceptable one returned an
\* error while a map was pending on a live connection.
C10_Witness ==
    /\ last.kind = "Set"
    /\ last.cur = 2
    /\ last.failed
    /\ new.present
    /\ conn # 0

\* C11. Absent is not empty: while no Set has returned nil, no pass of the
\* Writer, on any connection, writes an UPDATE or a WITHDRAW.
C11_AbsentNotEmpty == (IsPass /\ ~lastSet.present) => last.sent = <<>>

\* A first pass on the second connection of a session never set.
C11_Witness ==
    /\ last.kind = "first"
    /\ ~lastSet.present
    /\ last.conn = 2
    /\ conn = 2

\* The types of the messages of a complete handshake, in their order.
HandshakeOrder == <<"OPEN", "peer OPEN", "KEEPALIVE">>

\* C12. Handshake ordering: the messages of a connect() are, in this
\* order, the OPEN sent, the peer's OPEN and one KEEPALIVE sent, or the
\* beginning of it; the connection becomes s.conn exactly when all three
\* occurred and the peer's ASN is s.peerASN; an attempt that met another
\* ASN fails right there and publishes nothing; the Writer writes its
\* messages on a published connection only.
C12_HandshakeOrdering ==
    /\ last.kind = "connect" =>
          /\ Len(last.sent) <= Len(HandshakeOrder)
          /\ \A i \in 1..Len(last.sent) :
                last.sent[i].type = HandshakeOrder[i]
          /\ last.conn # 0 <=>
                (Len(last.sent) = 3 /\ last.sent[2].asn = PeerASN)
          /\ last.conn # 0 <=> ~last.failed
          /\ conn = last.conn
          /\ conn # 0 => sock[conn] = "open"
          /\ (Len(last.sent) >= 2 /\ last.sent[2].asn # PeerASN) =>
                (Len(last.sent) = 2 /\ conn = 0)
    /\ (IsPass /\ Written # <<>>) => last.conn # 0

\* A connect() that published its connection after another connect() had
\* published one.
C12_Witness ==
    /\ last.kind = "connect"
    /\ last.conn = 2
    /\ conn = 2
    /\ Len(last.sent) = 3

\* C13. Backoff before retry: run() comes to a call of connect() only
\* from the backoff sleep; no connection attempt follows a failed attempt
\* or the return of sendUpdates() without it.
C13_BackoffBeforeRetry ==
    [][(writerPc' = "connect" /\ writerPc # "connect") =>
          writerPc = "backoff"]_vars

\* C14. Hold-time negotiation: a connect() that succeeds leaves in
\* s.actualHoldTime the smaller of s.holdTime and the hold time the peer
\* requested; when the Ticker has consumed every signal and set its timer,
\* the timer runs with a third of s.actualHoldTime (the quotient of the
\* division by 3), the hold time of the latest connection, and there is no
\* timer when that is zero; this also after a connect() changed the hold
\* time and had its signal dropped, the channel being full: no such change
\* is left unapplied.
C14_HoldTimeNegotiation ==
    /\ (last.kind = "connect" /\ ~last.failed) =>
          actualHoldTime = IF last.cur < HoldTime THEN last.cur ELSE HoldTime
    /\ (tickerPc = "select" /\ newHoldTime = 0) =>
          /\ actualHoldTime # 0 =>
                /\ period > 0
                /\ 3 * period <= actualHoldTime
                /\ actualHoldTime < 3 * period + 3
          /\ actualHoldTime = 0 => period = 0
          /\ ~heldOver

\* The first connection put its signal in the channel; before the Ticker
\* received it, the second connection, whose peer requested half the local
\* hold time, changed s.actualHoldTime and had its signal dropped. The
\* Ticker has now received the one signal and set its timer: it runs with a
\* third of the hold time taken from the second peer.
C14_Witness ==
    /\ last.kind = "reset"
    /\ last.flag
    /\ tickerPc = "select"
    /\ newHoldTime = 0
    /\ conn = 2
    /\ actualHoldTime = Second \div 2
    /\ actualHoldTime < HoldTime
    /\ period = 166666666

\* A step in which abort() runs: Close, a Reader that ends on the current
\* connection, a keepalive whose write fails, a pass of the Writer whose
\* write returns an error.
AbortRuns ==
    \/ Close
    \/ \E c \in Conns : ReaderExit(c) /\ last'.flag
    \/ TickerTick /\ conn # 0 /\ conn' = 0
    \/ (FirstPass \/ Diff) /\ last'.failed /\ writerPc' # "panic"

\* C15. Abort effect: after a step in which abort() runs, s.conn and s.new
\* are nil, and s.advertised is the whole map that was pending if there was
\* one and is unchanged otherwise.
C15_AbortEffect ==
    [][AbortRuns =>
          /\ conn' = 0
          /\ ~new'.present
          /\ advertised' = IF new.present THEN new.m ELSE advertised]_vars

\* A diff was cut short by a failed write after it had written an UPDATE,
\* and s.advertised is the map that was pending, not the one advertised.
C15_Witness ==
    /\ last.kind = "diff"
    /\ last.failed
    /\ Len(last.sent) = 2
    /\ advertised = last.N.m
    /\ advertised # last.A
    /\ conn = 0
    /\ ~new.present

\* C16. Advertised mirrors the peer: while the Writer waits on a live
\* connection with no pending map, the prefixes the peer holds from the
\* UPDATE and WITHDRAW messages of this connection are the keys of
\* s.advertised, each with the NextHop and the Communities of its entry.
C16_AdvertisedMirrorsPeer ==
    (conn # 0 /\ ~new.present /\ writerPc = "wait") =>
        /\ DOMAIN rib = DOMAIN advertised
        /\ \A k \in DOMAIN rib :
              /\ rib[k].NextHop.a = advertised[k].NextHop.a
              /\ rib[k].NextHop.v4 = advertised[k].NextHop.v4
              /\ rib[k].Communities.elems = advertised[k].Communities.elems

\* The Writer waits after a diff that changed the next hop of an advertised
\* prefix and withdrew another.
C16_Witness ==
    /\ conn # 0
    /\ ~new.present
    /\ writerPc = "wait"
    /\ last.kind = "diff"
    /\ Len(last.sent) = 2
    /\ WithdrawsSent = {2}
    /\ \E k \in DOMAIN last.A \cap DOMAIN advertised :
          last.A[k].NextHop.a # advertised[k].NextHop.a

\* The keys advertised and pending whose two advertisements have an equal
\* NextHop and equal Communities and differ in LocalPref.
LocalPrefOnly(a, n) ==
    {k \in DOMAIN a \cap DOMAIN n :
        /\ a[k].NextHop = n[k].NextHop
        /\ a[k].Communities = n[k].Communities
        /\ a[k].LocalPref # n[k].LocalPref}

\* C17. LocalPref differences alone do not suppress re-transmission: a diff
\* that no failed write cuts short writes an UPDATE for every pending
\* advertisement that differs from the advertised one in LocalPref only.
C17_LocalPrefRetransmitted ==
    (last.kind = "diff" /\ ~last.failed) =>
        \A k \in LocalPrefOnly(last.A, last.N.m) :
            \E i \in UpdatesSent : last.sent[i].adv[1] = last.N.m[k]

\* C18. After Close() the Ticker eventually terminates, in whatever state
\* Close() was called (the end of the process by a panic is counted as
\* its end).
C18_TickerTerminates == closed ~> (tickerPc = "done" \/ writerPc = "panic")

\* C19. The Writer never attempts a send on an absent connection: a pass
\* that writes, or tries to write, an UPDATE or a WITHDRAW finds s.conn
\* not nil.
C19_NoSendOnAbsentConn == (IsPass /\ last.sent # <<>>) => last.conn # 0

\* A step of the time in which Set is called no more, the session is not
\* closed, connection attempts succeed and writes do not fail.
QuietStep ==
    /\ ~Close
    /\ ~(\E advs \in SmallCalls : Set(advs))
    /\ ~ConnectFail
    /\ ~ConnectKeepaliveFail
    /\ ~((FirstPass \/ Diff) /\ last'.failed)
    /\ ~(TickerTick /\ conn # 0 /\ conn' = 0)

\* The session has a live connection, no pending map, and advertises the
\* map of the latest Set that returned nil.
Converged ==
    /\ conn # 0
    /\ ~new.present
    /\ advertised = lastSet.m

\* C20. Convergence: if from some point on Set is called no more,
\* connection attempts succeed and writes do not fail, then a session that
\* was set and is not closed comes, after that point, to a live connection
\* with no pending map and s.advertised the map of the last Set.
C20_Convergence ==
    <>[][QuietStep]_vars => []<>(closed \/ ~lastSet.present \/ Converged)

====
